---- MODULE Spec2Model ----
(***************************************************************************)
(* Text_Summarizer: the Streamlit form (src/app.py) and the FastAPI        *)
(* endpoint (src/main.py) over the Gemini provider.                        *)
(*                                                                         *)
(* A run of the model is a run of ONE of the two programs (entry), in one  *)
(* environment (deployment flag, secret store, environment variable,       *)
(* whether genai.configure raises).  Strings are sequences of tokens: a    *)
(* token is a chunk of characters that is never split, so that trimming,   *)
(* interpolation and the substring test  "Error:" in s  are computed on    *)
(* the sequence as Python computes them on the characters.  A chunk holds   *)
(* inner blanks only in messages that are never trimmed or word-counted.   *)
(***************************************************************************)
EXTENDS Integers, Sequences, FiniteSets, TLC

VARIABLES
    entry,              \* "form" (app.py) or "endpoint" (main.py): which program runs
    is_streamlit_cloud, \* app.py:26  deployment flag
    secretVal,          \* st.secrets["GOOGLE_GEMINI_API_KEY"]: NoKey when absent
    envVal,             \* os.getenv("GOOGLE_API_KEY"): NoKey when unset
    configureOk,        \* FALSE when genai.configure(api_key=...) raises
    pc,                 \* position of the program
    gemini_api_key,     \* app.py:16
    gemini_configured,  \* app.py:17
    GOOGLE_API_KEY,     \* main.py:11
    startup_error,      \* what the startup code reported (st.error / print)
    input_text,         \* app.py:115
    target_words,       \* app.py:122
    payload,            \* main.py:42  the request body
    prompt,             \* the prompt handed to the provider
    response,           \* what the provider call produced
    calls,              \* provider invocations made for the current request
    summary_output,     \* app.py:135  the service's return value
    category,           \* which return statement of the service produced it
    view,               \* what the form rendered for the submission
    http_status,        \* status of the endpoint's answer (NoStatus: none yet)
    http_detail,        \* HTTPException detail of the answer
    http_body           \* SummaryResponse of the answer

vars == <<entry, is_streamlit_cloud, secretVal, envVal, configureOk, pc,
          gemini_api_key, gemini_configured, GOOGLE_API_KEY, startup_error,
          input_text, target_words, payload, prompt, response, calls,
          summary_output, category, view, http_status, http_detail, http_body>>

envVars == <<entry, is_streamlit_cloud, secretVal, envVal, configureOk>>
formVars == <<gemini_api_key, gemini_configured, input_text, target_words,
              summary_output, category, view>>
endpointVars == <<GOOGLE_API_KEY, payload, http_status, http_detail, http_body>>

-----------------------------------------------------------------------------
(* Bounds and input domains *)

MaxLen == 3
MaxInputLen == 1

NoKey == "None"
NoStatus == 0

Chars == {" ", "Error", ":"}
Whitespace == {" "}

TextsUpTo(n) == UNION {[1..k -> Chars] : k \in 0..n}
Texts == TextsUpTo(MaxLen)
InputTexts == TextsUpTo(MaxInputLen)
TargetWordCounts == {20, 75}

SecretValues == {NoKey, "", "k1"}
EnvValues == {NoKey, "", "k2"}

NoPayload == [text |-> <<>>, target_word_count |-> 75]
NoBody == [original_text |-> <<>>, summary |-> <<>>]
NoView == [kind |-> "none", text |-> <<>>, counts |-> <<0, 0>>]

-----------------------------------------------------------------------------
(* The provider's answers *)

NoResponse ==
    [kind |-> "none", text |-> <<>>, attrs |-> {}, exc |-> <<>>]
PartsResponse(t) ==
    [kind |-> "parts", text |-> t, attrs |-> {}, exc |-> <<>>]
BlockedResponse(a) ==
    [kind |-> "blocked", text |-> <<>>, attrs |-> a, exc |-> <<>>]
BareResponse ==
    [kind |-> "bare", text |-> <<>>, attrs |-> {}, exc |-> <<>>]
RaisedResponse(e) ==
    [kind |-> "raise", text |-> <<>>, attrs |-> {}, exc |-> e]

Responses ==
    {PartsResponse(t) : t \in Texts}
        \cup {BlockedResponse(a) : a \in SUBSET {"name", "value"}}
        \cup {BareResponse}
        \cup {RaisedResponse(e) : e \in Texts}

-----------------------------------------------------------------------------
(* Python string operations on token sequences *)

Truthy(k) == k # NoKey /\ k # ""

RECURSIVE LStrip(_)
LStrip(s) ==
    IF s = <<>> THEN <<>>
    ELSE IF Head(s) \in Whitespace THEN LStrip(Tail(s)) ELSE s

RECURSIVE RStrip(_)
RStrip(s) ==
    IF s = <<>> THEN <<>>
    ELSE IF s[Len(s)] \in Whitespace THEN RStrip(SubSeq(s, 1, Len(s) - 1)) ELSE s

Strip(s) == RStrip(LStrip(s))

Contains(s, sub) ==
    \E i \in 0..(Len(s) - Len(sub)) :
        \A j \in 1..Len(sub) : s[i + j] = sub[j]

WordCount(s) ==
    Cardinality({i \in 1..Len(s) :
        /\ s[i] \notin Whitespace
        /\ (i = 1 \/ s[i - 1] \in Whitespace)})

ErrorMarker == <<"Error", ":">>

BuildPrompt(text, target) ==
    <<"Please summarize the following text concisely. Aim for a summary of approximately ",
      target,
      " words. ... Text to summarize: --- ">> \o text \o <<" --- Summary: ">>

BlockReasonName(attrs) ==
    IF "name" \in attrs THEN "SAFETY"
    ELSE IF "value" \in attrs THEN "2"
    ELSE "Unknown"

-----------------------------------------------------------------------------
(* app.py: startup *)

\* Mutant of ResolveFormKey: the secret store first, the environment as fallback.
ResolveFormKeyWithFallback(cloud, secret, env) ==
    IF Truthy(secret) THEN [key |-> secret, stop |-> FALSE]
    ELSE IF Truthy(env) THEN [key |-> env, stop |-> FALSE]
    ELSE [key |-> NoKey, stop |-> TRUE]

\* app.py:31-50.  One source is read, chosen by the deployment flag.
ResolveFormKey(cloud, secret, env) ==
    IF cloud
    THEN IF secret # NoKey
         THEN [key |-> secret, stop |-> FALSE]
         ELSE [key |-> NoKey, stop |-> TRUE]
    ELSE IF Truthy(env)
         THEN [key |-> env, stop |-> FALSE]
         ELSE [key |-> NoKey, stop |-> TRUE]

FormResolveCredential ==
    /\ entry = "form"
    /\ pc = "start"
    /\ LET r == ResolveFormKey(is_streamlit_cloud, secretVal, envVal) IN
        /\ gemini_api_key' = r.key
        /\ IF r.stop
           THEN /\ startup_error' = "MissingCredential"
                /\ pc' = "stopped"
           ELSE /\ startup_error' = startup_error
                /\ pc' = "resolved"
    /\ UNCHANGED <<envVars, endpointVars, gemini_configured, input_text,
                   target_words, prompt, response, calls, summary_output,
                   category, view>>

\* app.py:53-62
FormConfigure ==
    /\ entry = "form"
    /\ pc = "resolved"
    /\ IF Truthy(gemini_api_key)
       THEN IF configureOk
            THEN /\ gemini_configured' = TRUE
                 /\ startup_error' = startup_error
                 /\ pc' = "ui"
            ELSE /\ gemini_configured' = gemini_configured
                 /\ startup_error' = "CredentialRejected"
                 /\ pc' = "stopped"
       ELSE IF ~is_streamlit_cloud
            THEN /\ gemini_configured' = gemini_configured
                 /\ startup_error' = "MissingCredential"
                 /\ pc' = "stopped"
            ELSE /\ gemini_configured' = gemini_configured
                 /\ startup_error' = startup_error
                 /\ pc' = "ui"
    /\ UNCHANGED <<envVars, endpointVars, gemini_api_key, input_text,
                   target_words, prompt, response, calls, summary_output,
                   category, view>>

-----------------------------------------------------------------------------
(* app.py: the summarization service *)

\* Mutant of ClassifyFormResponse: the test of app.py:92 is dropped.
ClassifyFormResponseNoEmptyCheck(resp) ==
    IF resp.kind = "raise"
    THEN [category |-> "TransportOrProviderError",
          text |-> <<"Error", " ", "during", " ", "summarization", ":", " ">> \o resp.exc]
    ELSE IF resp.kind = "parts"
    THEN [category |-> "Success", text |-> Strip(resp.text)]
    ELSE IF resp.kind = "blocked"
    THEN [category |-> "Blocked",
          text |-> <<"Error", ":", " Content blocked by Gemini due to", ":", " ",
                     BlockReasonName(resp.attrs), ".">>]
    ELSE [category |-> "UnexpectedResponse",
          text |-> <<"Error", ":", " Unexpected response from Gemini API. Check logs.">>]

\* app.py:90-108: the classification of the provider's answer.
ClassifyFormResponse(resp) ==
    IF resp.kind = "raise"
    THEN [category |-> "TransportOrProviderError",
          text |-> <<"Error", " ", "during", " ", "summarization", ":", " ">> \o resp.exc]
    ELSE IF resp.kind = "parts"
    THEN IF Strip(resp.text) = <<>>
         THEN [category |-> "EmptyOutput",
               text |-> <<"Error", ":",
                          " Gemini returned an empty summary. The input might be too short or unclear.">>]
         ELSE [category |-> "Success", text |-> Strip(resp.text)]
    ELSE IF resp.kind = "blocked"
    THEN [category |-> "Blocked",
          text |-> <<"Error", ":", " Content blocked by Gemini due to", ":", " ",
                     BlockReasonName(resp.attrs), ".">>]
    ELSE [category |-> "UnexpectedResponse",
          text |-> <<"Error", ":", " Unexpected response from Gemini API. Check logs.">>]

\* app.py:66-108
summarize_with_gemini(configured, resp) ==
    IF ~configured
    THEN [category |-> "NotConfigured",
          text |-> <<"Error", ":", " Gemini API not configured.">>]
    ELSE ClassifyFormResponse(resp)

-----------------------------------------------------------------------------
(* app.py: the submit handler *)

\* Mutant of SubmitBranch: the input is tested without .strip().
SubmitBranchNoStrip(configured, text) ==
    IF ~configured THEN "config_error"
    ELSE IF text # <<>> THEN "summarize"
    ELSE "warning"

\* app.py:131-145: which branch of the handler a submission takes.
SubmitBranch(configured, text) ==
    IF ~configured THEN "config_error"
    ELSE IF Strip(text) # <<>> THEN "summarize"
    ELSE "warning"

\* app.py:137-143
RenderSummary(out, text) ==
    IF Contains(out, ErrorMarker)
    THEN [kind |-> "error", text |-> out, counts |-> <<0, 0>>]
    ELSE [kind |-> "success", text |-> out,
          counts |-> <<WordCount(text), WordCount(out)>>]

ConfigErrorView ==
    [kind |-> "config_error",
     text |-> <<"Cannot summarize", ":", " Gemini API is not configured correctly.">>,
     counts |-> <<0, 0>>]

WarningView ==
    [kind |-> "warning",
     text |-> <<"Please enter some text to summarize.">>,
     counts |-> <<0, 0>>]

\* app.py:130-135, 66-88: a click on the button, up to the provider call.
\* Streamlit runs the script from the top on each click; lines 16-62 then
\* recompute gemini_api_key and gemini_configured from the same environment,
\* so the values held since startup are the ones the handler reads.
FormSubmitWith(text, target) ==
    /\ entry = "form"
    /\ pc = "ui"
    /\ input_text' = text
    /\ target_words' = target
    /\ response' = NoResponse
    /\ summary_output' = <<>>
    /\ category' = "none"
    /\ LET b == SubmitBranch(gemini_configured, text) IN
        IF b = "summarize"
        THEN /\ prompt' = BuildPrompt(text, target)
             /\ calls' = 1
             /\ view' = NoView
             /\ pc' = "calling"
        ELSE /\ prompt' = <<>>
             /\ calls' = 0
             /\ view' = IF b = "config_error" THEN ConfigErrorView ELSE WarningView
             /\ pc' = "ui"
    /\ UNCHANGED <<envVars, endpointVars, gemini_api_key, gemini_configured,
                   startup_error>>

FormSubmit ==
    \E text \in InputTexts, target \in TargetWordCounts :
        FormSubmitWith(text, target)

\* Mutant of FormFinish: a provider call that raised is made again.
FormFinishRetry(resp) ==
    /\ response' = resp
    /\ LET r == summarize_with_gemini(gemini_configured, resp) IN
        /\ summary_output' = r.text
        /\ category' = r.category
        /\ view' = IF resp.kind = "raise" THEN view
                   ELSE RenderSummary(r.text, input_text)
    /\ pc' = IF resp.kind = "raise" THEN "calling" ELSE "ui"
    /\ calls' = IF resp.kind = "raise" THEN calls + 1 ELSE calls
    /\ UNCHANGED <<envVars, endpointVars, gemini_api_key, gemini_configured,
                   startup_error, input_text, target_words, prompt>>

\* app.py:88-108, 137-143: the provider answers, the service returns, the
\* handler renders.
FormFinish(resp) ==
    /\ response' = resp
    /\ LET r == summarize_with_gemini(gemini_configured, resp) IN
        /\ summary_output' = r.text
        /\ category' = r.category
        /\ view' = RenderSummary(r.text, input_text)
    /\ pc' = "ui"
    /\ UNCHANGED <<envVars, endpointVars, gemini_api_key, gemini_configured,
                   startup_error, input_text, target_words, prompt, calls>>

FormProviderRespondsWith(resp) ==
    /\ entry = "form"
    /\ pc = "calling"
    /\ FormFinish(resp)

FormProviderResponds ==
    \E resp \in Responses : FormProviderRespondsWith(resp)

-----------------------------------------------------------------------------
(* main.py: startup *)

\* main.py:8-11
EndpointLoadKey ==
    /\ entry = "endpoint"
    /\ pc = "start"
    /\ GOOGLE_API_KEY' = envVal
    /\ pc' = "resolved"
    /\ UNCHANGED <<envVars, formVars, payload, http_status, http_detail,
                   http_body, startup_error, prompt, response, calls>>

\* main.py:13-22.  No branch stops the process: the application object is
\* created at main.py:25 and serves in every case.
EndpointConfigure ==
    /\ entry = "endpoint"
    /\ pc = "resolved"
    /\ IF ~Truthy(GOOGLE_API_KEY)
       THEN /\ startup_error' = "MissingCredential"
            /\ GOOGLE_API_KEY' = GOOGLE_API_KEY
       ELSE IF configureOk
            THEN /\ startup_error' = startup_error
                 /\ GOOGLE_API_KEY' = GOOGLE_API_KEY
            ELSE /\ startup_error' = "CredentialRejected"
                 /\ GOOGLE_API_KEY' = NoKey
    /\ pc' = "idle"
    /\ UNCHANGED <<envVars, formVars, payload, http_status, http_detail,
                   http_body, prompt, response, calls>>

-----------------------------------------------------------------------------
(* main.py: POST /summarize *)

OkStatus == 200
BlockedStatus == 400
ServerErrorStatus == 500

NotConfiguredDetail ==
    <<"Google API Key not configured or configuration failed at startup.">>
EmptySummaryDetail ==
    <<"Gemini API returned an empty summary. Try rephrasing input or check model.">>
UnexpectedDetail ==
    <<"Error processing summary from Gemini API", ":", " Empty or unexpected response.">>
GenericDetail ==
    <<"An internal server error occurred while contacting the Gemini API.">>
BlockedDetail(name) ==
    <<"Content blocked by Gemini due to", ":", " ", name, ".",
      " The input text might violate safety policies.">>

Returned(body) ==
    [raised |-> "none", status |-> OkStatus, detail |-> <<>>, body |-> body,
     exc |-> <<>>]
RaisedHTTP(status, detail) ==
    [raised |-> "HTTPException", status |-> status, detail |-> detail,
     body |-> NoBody, exc |-> detail]
RaisedOther(e) ==
    [raised |-> "Exception", status |-> NoStatus, detail |-> <<>>,
     body |-> NoBody, exc |-> e]

\* main.py:78-110: the body of the try statement after the provider call.
TryBody(resp, p) ==
    IF resp.kind = "raise"
    THEN RaisedOther(resp.exc)
    ELSE IF resp.kind = "parts"
    THEN IF Strip(resp.text) = <<>>
         THEN RaisedHTTP(ServerErrorStatus, EmptySummaryDetail)
         ELSE Returned([original_text |-> p.text, summary |-> Strip(resp.text)])
    ELSE IF resp.kind = "blocked"
    THEN RaisedHTTP(BlockedStatus, BlockedDetail(BlockReasonName(resp.attrs)))
    ELSE RaisedHTTP(ServerErrorStatus, UnexpectedDetail)

\* Mutant of ExceptClause: the detail carries str(e), as app.py:108 does.
ExceptClauseLeaks(r) ==
    IF r.raised = "none"
    THEN r
    ELSE RaisedHTTP(ServerErrorStatus,
                    <<"An internal server error occurred", ":", " ">> \o r.exc)

\* main.py:112-116: except Exception catches whatever the try body raised,
\* an HTTPException raised at lines 96, 104 or 108 included.
ExceptClause(r) ==
    IF r.raised = "none"
    THEN r
    ELSE RaisedHTTP(ServerErrorStatus, GenericDetail)

\* main.py:42-81: the request is accepted and the provider is called.
\* TextToSummarize (main.py:32-34) accepts every string as text, the empty
\* one included; the handler makes no test of its own.
EndpointRequestWith(p) ==
    /\ entry = "endpoint"
    /\ pc = "idle"
    /\ payload' = p
    /\ response' = NoResponse
    /\ http_body' = NoBody
    /\ IF ~Truthy(GOOGLE_API_KEY)
       THEN /\ http_status' = ServerErrorStatus
            /\ http_detail' = NotConfiguredDetail
            /\ prompt' = <<>>
            /\ calls' = 0
            /\ pc' = "idle"
       ELSE /\ http_status' = NoStatus
            /\ http_detail' = <<>>
            /\ prompt' = BuildPrompt(p.text, p.target_word_count)
            /\ calls' = 1
            /\ pc' = "calling"
    /\ UNCHANGED <<envVars, formVars, GOOGLE_API_KEY, startup_error>>

EndpointRequest ==
    \E text \in InputTexts, target \in TargetWordCounts :
        EndpointRequestWith([text |-> text, target_word_count |-> target])

\* main.py:78-116: the provider answers and the handler answers the client.
EndpointFinish(resp) ==
    /\ response' = resp
    /\ LET r == ExceptClause(TryBody(resp, payload)) IN
        /\ http_status' = r.status
        /\ http_detail' = r.detail
        /\ http_body' = r.body
    /\ pc' = "idle"
    /\ UNCHANGED <<envVars, formVars, GOOGLE_API_KEY, startup_error, payload,
                   prompt, calls>>

EndpointProviderRespondsWith(resp) ==
    /\ entry = "endpoint"
    /\ pc = "calling"
    /\ EndpointFinish(resp)

EndpointProviderResponds ==
    \E resp \in Responses : EndpointProviderRespondsWith(resp)

-----------------------------------------------------------------------------
(* The specification *)

Init ==
    /\ entry \in {"form", "endpoint"}
    /\ is_streamlit_cloud \in BOOLEAN
    /\ secretVal \in SecretValues
    /\ envVal \in EnvValues
    /\ configureOk \in BOOLEAN
    /\ pc = "start"
    /\ gemini_api_key = NoKey
    /\ gemini_configured = FALSE
    /\ GOOGLE_API_KEY = NoKey
    /\ startup_error = "none"
    /\ input_text = <<>>
    /\ target_words = 75
    /\ payload = NoPayload
    /\ prompt = <<>>
    /\ response = NoResponse
    /\ calls = 0
    /\ summary_output = <<>>
    /\ category = "none"
    /\ view = NoView
    /\ http_status = NoStatus
    /\ http_detail = <<>>
    /\ http_body = NoBody

Next ==
    \/ FormResolveCredential
    \/ FormConfigure
    \/ FormSubmit
    \/ FormProviderResponds
    \/ EndpointLoadKey
    \/ EndpointConfigure
    \/ EndpointRequest
    \/ EndpointProviderResponds

Spec == Init /\ [][Next]_vars

-----------------------------------------------------------------------------
(* Properties *)

\* C1: on the endpoint, a provider answer without content parts but with a
\* block reason is answered with status 400 and a message containing the
\* block reason (its name, else its value, else "Unknown").
C1_BlockedAnswers400 ==
    (entry = "endpoint" /\ response.kind = "blocked") =>
        /\ http_status = BlockedStatus
        /\ Contains(http_detail, <<BlockReasonName(response.attrs)>>)

\* C2: in the form's service, a provider call that raises yields a
\* TransportOrProviderError failure whose message does not contain the raw
\* exception string.
C2_FormExceptionSanitized ==
    (entry = "form" /\ response.kind = "raise") =>
        /\ category = "TransportOrProviderError"
        /\ (response.exc # <<>> => ~Contains(summary_output, response.exc))

\* C3: for every outcome the service returns to the form, the success view
\* (summary and word counts) is rendered exactly when the outcome is a
\* Success, and the error indicator holding the failure message exactly when
\* it is a Failure.
C3_ViewMatchesOutcome ==
    (entry = "form" /\ category # "none") =>
        /\ (view.kind = "success") <=> (category = "Success")
        /\ (view.kind = "error") <=> (category # "Success")
        /\ view.text = summary_output
        /\ (view.kind = "success") =>
                view.counts = <<WordCount(input_text), WordCount(summary_output)>>

\* C4: on the endpoint, a request whose text is empty or whitespace-only
\* causes no provider invocation.
C4_EmptyTextNoProviderCall ==
    (entry = "endpoint" /\ Strip(payload.text) = <<>>) => calls = 0

\* C5: when no credential is configured (none resolved, or the provider
\* client rejected it) the process never answers a request: neither an HTTP
\* answer nor a rendered submission exists.
C5_StartupFailureStops ==
    LET configured == IF entry = "form" THEN gemini_configured
                      ELSE pc \in {"idle", "calling"} /\ Truthy(GOOGLE_API_KEY)
    IN  ~configured => (http_status = NoStatus /\ view.kind = "none")

C7_EmptyOutputIsFailure ==
    LET trimmed(t) == /\ t # <<>>
                      /\ Head(t) \notin Whitespace
                      /\ t[Len(t)] \notin Whitespace
    IN  /\ (response.kind = "parts" /\ Strip(response.text) = <<>>) =>
                IF entry = "form"
                THEN category = "EmptyOutput" /\ view.kind = "error"
                ELSE http_status = ServerErrorStatus
        /\ (category = "Success") => trimmed(summary_output)
        /\ (http_status = OkStatus) => trimmed(http_body.summary)

C7_Witness ==
    /\ entry = "endpoint"
    /\ response.kind = "parts"
    /\ response.text = <<" ", " ">>
    /\ http_status = ServerErrorStatus

\* C8: on the endpoint, a provider call that raises is answered with
\* status 500 and a body that does not contain the raw exception text, and
\* the endpoint accepts the next request.
C8_EndpointExceptionSanitized ==
    (entry = "endpoint" /\ response.kind = "raise") =>
        /\ http_status = ServerErrorStatus
        /\ http_body = NoBody
        /\ (response.exc # <<>> => ~Contains(http_detail, response.exc))
        /\ pc = "idle"
        /\ ENABLED EndpointRequest

C8_Witness ==
    /\ entry = "endpoint"
    /\ response.kind = "raise"
    /\ response.exc = <<"Error", ":", " ">>
    /\ http_status = ServerErrorStatus

\* C9: a request causes at most one provider call; once the provider has
\* returned or raised, exactly one call was made, the request is over and
\* its outcome (a failure included) has been delivered.
C9_SingleAttempt ==
    /\ calls <= 1
    /\ (response.kind # "none") =>
            /\ calls = 1
            /\ pc \in {"ui", "idle"}
            /\ IF entry = "form"
               THEN view.kind \in {"success", "error"} /\ category # "none"
               ELSE http_status # NoStatus

C9_Witness ==
    /\ entry = "form"
    /\ response.kind = "raise"
    /\ category = "TransportOrProviderError"
    /\ calls = 1
    /\ pc = "ui"

\* C10: on a form submission the provider is called only when the
\* credential is configured and the trimmed input is non-empty; without a
\* configured credential the form shows the configuration error, with an
\* empty trimmed input the warning, and in both cases no call is made.
C10_CallOnlyWhenConfiguredAndNonEmpty ==
    LET submitted == pc = "calling" \/ view.kind # "none" IN
    (entry = "form") =>
        /\ (calls > 0) => (gemini_configured /\ Strip(input_text) # <<>>)
        /\ (submitted /\ ~gemini_configured) =>
                (view.kind = "config_error" /\ calls = 0)
        /\ (submitted /\ gemini_configured /\ Strip(input_text) = <<>>) =>
                (view.kind = "warning" /\ calls = 0)

C10_Witness ==
    /\ entry = "form"
    /\ pc = "ui"
    /\ ~gemini_configured
    /\ view.kind = "config_error"
    /\ calls = 0

====
